---- MODULE Spec2Model ----
(***************************************************************************)
(* A model of openmw-config-sync/sync_openmw_config.py: one run of         *)
(* sync_openmw_config() over the three files it touches (the Windows       *)
(* openmw.cfg it reads, the Linux openmw.cfg it rewrites, the .backup it   *)
(* creates), followed by further runs over what the previous run left.     *)
(*                                                                         *)
(* File contents are strings of bytes; a file is <<>> when it does not     *)
(* exist and <<bytes>> when it does.  Python's str operations are          *)
(* operators over TLA+ strings (Len, \o and SubSeq apply to strings).      *)
(***************************************************************************)
EXTENDS Integers, Sequences, FiniteSets, TLC

(***************************************************************************)
(* Bounds of the model: the longest source and target documents, in lines. *)
(***************************************************************************)
MaxSrcLines == 2
MaxTgtLines == 2

(***************************************************************************)
(* Python str helpers.                                                     *)
(***************************************************************************)
\* str.startswith(prefix)
StartsWith(s, p) == Len(s) >= Len(p) /\ SubSeq(s, 1, Len(p)) = p

\* `p in s`
Contains(s, p) ==
  \E i \in 1..(Len(s) - Len(p) + 1) : SubSeq(s, i, i + Len(p) - 1) = p

\* the characters str.strip() removes (ASCII whitespace)
IsSpace(c) == c \in {" ", "\t", "\n", "\r", "\f"}

\* str.lstrip() and str.rstrip(), one whitespace character at a time
RECURSIVE LStrip(_)
LStrip(s) ==
  IF s # "" /\ IsSpace(SubSeq(s, 1, 1)) THEN LStrip(SubSeq(s, 2, Len(s))) ELSE s

RECURSIVE RStrip(_)
RStrip(s) ==
  IF s # "" /\ IsSpace(SubSeq(s, Len(s), Len(s)))
  THEN RStrip(SubSeq(s, 1, Len(s) - 1)) ELSE s

\* str.strip()
Strip(s) == RStrip(LStrip(s))

\* the least member of a non-empty set of positions
Least(S) == CHOOSE i \in S : \A j \in S : i <= j

\* "".join(lines): what f.writelines(lines) puts in the file
RECURSIVE Join(_)
Join(lines) == IF lines = <<>> THEN "" ELSE Head(lines) \o Join(Tail(lines))

(***************************************************************************)
(* Files.  The byte 0xFF, which no UTF-8 text contains, is written "~".    *)
(***************************************************************************)
Missing == <<>>
File(bytes) == <<bytes>>
Bytes(f) == f[1]
InvalidByte == "~"

\* whether open(..., encoding='utf-8').readlines() decodes the bytes
Decodable(bytes) == ~Contains(bytes, InvalidByte)

\* text-mode universal newlines: "\r\n" and "\r" are read as "\n"
\* the position of the first c in s, or 0
IndexOf(s, c) ==
  LET at == {i \in 1..Len(s) : SubSeq(s, i, i) = c}
  IN  IF at = {} THEN 0 ELSE Least(at)

RECURSIVE TranslateNewlines(_)
TranslateNewlines(s) ==
  LET r == IndexOf(s, "\r")
  IN  IF r = 0 THEN s
      ELSE SubSeq(s, 1, r - 1) \o "\n"
             \o TranslateNewlines(
                  SubSeq(s, IF SubSeq(s, r + 1, r + 1) = "\n" THEN r + 2 ELSE r + 1,
                         Len(s)))

\* str lines, each keeping its "\n"; the last one may have none
RECURSIVE SplitKeepEnds(_)
SplitKeepEnds(s) ==
  IF s = "" THEN <<>>
  ELSE LET n == IndexOf(s, "\n")
       IN  IF n = 0 THEN <<s>>
           ELSE <<SubSeq(s, 1, n)>> \o SplitKeepEnds(SubSeq(s, n + 1, Len(s)))

\* f.readlines() of a file opened 'r', encoding='utf-8'
ReadLines(bytes) == SplitKeepEnds(TranslateNewlines(bytes))

(***************************************************************************)
(* The merge of sync_openmw_config: lines 37-80.                           *)
(***************************************************************************)
\* [f(x) for x in seq]
StripAll(lines) == [i \in 1..Len(lines) |-> Strip(lines[i])]

IsDataLine(line) == StartsWith(line, "data=")
IsContentLine(line) == ~StartsWith(line, "data=") /\ StartsWith(line, "content=")

\* windows_data_lines: the stripped lines of the Windows config that start with data=
WindowsDataLines(lines) == SelectSeq(StripAll(lines), IsDataLine)

\* windows_content_lines: the stripped lines that start with content=
WindowsContentLines(lines) == SelectSeq(StripAll(lines), IsContentLine)

\* the test of line 54 with its second half forgotten
KeepsLinuxLineDataOnly(line) == ~StartsWith(Strip(line), "data=")

\* the test of line 54: a Linux line is copied unless, stripped, it is a directive
KeepsLinuxLine(line) ==
  LET stripped_line == Strip(line)
  IN  ~StartsWith(stripped_line, "data=") /\ ~StartsWith(stripped_line, "content=")

\* the lines copied from the Linux config, as read (terminators included)
CarriedLines(lines) == SelectSeq(lines, KeepsLinuxLine)

\* the line appended at line 58
BaseDataLine == "data=\"/mnt/data02/SteamLibrary/steamapps/common/Morrowind/Data Files\"\n"

\* the test of line 63
IsBaseGamePath(data_line) ==
  \/ Contains(data_line, "steamapps/common/Morrowind/Data Files")
  \/ Contains(data_line, "games/steam/steamapps/common/Morrowind/Data Files")

ModsMarker == "ModOrganizer/Morrowind/mods/"
OverwriteMarker == "ModOrganizer/Morrowind/overwrite"

\* the regular expression of line 69 matches at i: the literal, then one
\* character at least that is not a double quote
ModsMatchAt(s, i) ==
  /\ SubSeq(s, i, i + Len(ModsMarker) - 1) = ModsMarker
  /\ i + Len(ModsMarker) <= Len(s)
  /\ SubSeq(s, i + Len(ModsMarker), i + Len(ModsMarker)) # "\""

\* re.search: the leftmost position the expression matches at, or 0
ModsSearch(s) ==
  IF \E i \in 1..Len(s) : ModsMatchAt(s, i)
  THEN CHOOSE i \in 1..Len(s) :
         ModsMatchAt(s, i) /\ \A j \in 1..(i - 1) : ~ModsMatchAt(s, j)
  ELSE 0

\* [^"]+ from position i: the longest run of characters that are not a quote
NonQuoteRun(s, i) ==
  LET q == IndexOf(SubSeq(s, i, Len(s)), "\"")
  IN  IF q = 0 THEN SubSeq(s, i, Len(s)) ELSE SubSeq(s, i, i + q - 2)

\* the group of line 69 written [^" ]+: it stops at a space as well
ModNameFirstWord(data_line) ==
  LET name == NonQuoteRun(data_line, ModsSearch(data_line) + Len(ModsMarker))
      sp == IndexOf(name, " ")
  IN  IF sp = 0 THEN name ELSE SubSeq(name, 1, sp - 1)

\* match.group(1) of line 71, for a line the expression matches
ModName(data_line) == NonQuoteRun(data_line, ModsSearch(data_line) + Len(ModsMarker))

\* the line built at line 72
LinuxModLine(mod_name) ==
  "data=\"/home/voshond/Documents/Morrowind/mods/" \o mod_name \o "\"\n"

\* what one Windows data line adds to new_lines (lines 62-76): nothing or one line
ConvertDataLine(data_line) ==
  IF IsBaseGamePath(data_line) THEN <<>>
  ELSE IF Contains(data_line, ModsMarker)
       THEN IF ModsSearch(data_line) # 0
            THEN <<LinuxModLine(ModName(data_line))>>
            ELSE <<>>
  ELSE IF Contains(data_line, OverwriteMarker) THEN <<>>
  ELSE <<>>

RECURSIVE ConvertDataLines(_)
ConvertDataLines(data_lines) ==
  IF data_lines = <<>> THEN <<>>
  ELSE ConvertDataLine(Head(data_lines)) \o ConvertDataLines(Tail(data_lines))

\* lines 79-80
AppendNewline(lines) == [i \in 1..Len(lines) |-> lines[i] \o "\n"]

\* new_lines as line 82 finds it
NewLines(w_lines, l_lines) ==
  CarriedLines(l_lines)
    \o <<BaseDataLine>>
    \o ConvertDataLines(WindowsDataLines(w_lines))
    \o AppendNewline(WindowsContentLines(w_lines))

(***************************************************************************)
(* The documents the runs start from.                                      *)
(***************************************************************************)
\* lines a Windows openmw.cfg may hold (written there with "\r\n")
SourcePool ==
  { "data=\"C:/Games/ModOrganizer/Morrowind/mods/Graphics Overhaul\"",
    "data=\"C:\\Games\\ModOrganizer\\Morrowind\\mods\\Graphics Overhaul\"",
    "data=\"C:/Games/ModOrganizer/Morrowind/mods/Patch\"",
    "data=\"C:/Steam/steamapps/common/Morrowind/Data Files\"",
    "data=\"C:/Games/ModOrganizer/Morrowind/overwrite\"",
    "content=GraphicsOverhaul.esp",
    "  content=Patch.esp" }

\* lines a Linux openmw.cfg may hold
TargetPool ==
  { "fallback-archive=Tribunal.bsa",
    "  content=Old.esp" }

SeqsUpTo(pool, n) == UNION {[1..k -> pool] : k \in 0..n}

RECURSIVE JoinWith(_, _)
JoinWith(lines, end) ==
  IF lines = <<>> THEN "" ELSE Head(lines) \o end \o JoinWith(Tail(lines), end)

\* the same text with its last line left without a newline
WithoutFinalNewline(text) == SubSeq(text, 1, Len(text) - 1)

SourceFiles ==
  {Missing, File("content=Caf" \o InvalidByte \o ".esp\r\n")}
    \cup {File(JoinWith(ls, "\r\n")) : ls \in SeqsUpTo(SourcePool, MaxSrcLines)}

TargetFiles ==
  {Missing, File("fallback-archive=Tribunal" \o InvalidByte \o ".bsa\n")}
    \cup {File(JoinWith(ls, "\n")) : ls \in SeqsUpTo(TargetPool, MaxTgtLines)}
    \cup {File(WithoutFinalNewline(JoinWith(ls, "\n"))) :
            ls \in SeqsUpTo(TargetPool, MaxTgtLines) \ {<<>>}}

\* a backup an earlier run may have left
BackupFiles == {Missing, File("fallback-archive=Morrowind.bsa\n")}

(***************************************************************************)
(* State.                                                                  *)
(***************************************************************************)
VARIABLES
  windows_config,   \* the file at windows_config: <<>> or <<bytes>>
  linux_config,     \* the file at linux_config
  backup_config,    \* the file at backup_config
  pc,               \* where the run of sync_openmw_config is
  result,           \* how the run ended: "none" while it runs
  windows_lines,    \* the local windows_lines
  linux_lines,      \* the local linux_lines
  new_lines,        \* the local new_lines
  pre_linux,        \* linux_config as the current run found it
  pre_backup,       \* backup_config as the current run found it
  rerun             \* whether the current run follows a completed one

vars == <<windows_config, linux_config, backup_config, pc, result,
          windows_lines, linux_lines, new_lines, pre_linux, pre_backup, rerun>>

files == <<windows_config, linux_config, backup_config>>
locals == <<windows_lines, linux_lines, new_lines>>
history == <<pre_linux, pre_backup, rerun>>

\* a run is about to start over some source, target and backup
StartsFrom(sources, targets) ==
  /\ windows_config \in sources
  /\ linux_config \in targets
  /\ backup_config \in BackupFiles
  /\ pc = "start"
  /\ result = "none"
  /\ windows_lines = <<>>
  /\ linux_lines = <<>>
  /\ new_lines = <<>>
  /\ pre_linux = linux_config
  /\ pre_backup = backup_config
  /\ rerun = FALSE

Init == StartsFrom(SourceFiles, TargetFiles)

\* lines 18-24 without the second check
MissingInputSourceOnly == windows_config = Missing

\* lines 18 and 22: one of the two files does not exist
MissingInput == windows_config = Missing \/ linux_config = Missing

\* lines 18-24: print the absent path and return False
ReturnMissing ==
  /\ pc = "start"
  /\ MissingInput
  /\ pc' = "end"
  /\ result' = "missing"
  /\ UNCHANGED <<files, locals, history>>

\* line 28 copying the other config
BackupCopyOfSource == windows_config

\* what shutil.copy2 writes to backup_config at line 28
BackupCopy == linux_config

\* lines 26-28; shutil.copy2 of a file that is not there raises
\* FileNotFoundError, which leaves the function
CreateBackup ==
  /\ pc = "start"
  /\ ~MissingInput
  /\ IF linux_config = Missing
     THEN /\ pc' = "end"
          /\ result' = "file_not_found"
          /\ UNCHANGED backup_config
     ELSE /\ backup_config' = BackupCopy
          /\ pc' = "read_windows"
          /\ UNCHANGED result
  /\ UNCHANGED <<windows_config, linux_config, locals, history>>

\* lines 31-32: readlines; FileNotFoundError or UnicodeDecodeError leaves
\* the function
ReadWindows ==
  /\ pc = "read_windows"
  /\ IF windows_config = Missing
     THEN /\ pc' = "end"
          /\ result' = "file_not_found"
          /\ UNCHANGED windows_lines
     ELSE IF Decodable(Bytes(windows_config))
     THEN /\ windows_lines' = ReadLines(Bytes(windows_config))
          /\ pc' = "read_linux"
          /\ UNCHANGED result
     ELSE /\ pc' = "end"
          /\ result' = "decode_error"
          /\ UNCHANGED windows_lines
  /\ UNCHANGED <<files, linux_lines, new_lines, history>>

\* lines 34-35
ReadLinux ==
  /\ pc = "read_linux"
  /\ IF linux_config = Missing
     THEN /\ pc' = "end"
          /\ result' = "file_not_found"
          /\ UNCHANGED linux_lines
     ELSE IF Decodable(Bytes(linux_config))
     THEN /\ linux_lines' = ReadLines(Bytes(linux_config))
          /\ pc' = "merge"
          /\ UNCHANGED result
     ELSE /\ pc' = "end"
          /\ result' = "decode_error"
          /\ UNCHANGED linux_lines
  /\ UNCHANGED <<files, windows_lines, new_lines, history>>

\* lines 37-80
Merge ==
  /\ pc = "merge"
  /\ new_lines' = NewLines(windows_lines, linux_lines)
  /\ pc' = "open"
  /\ UNCHANGED <<files, result, windows_lines, linux_lines, history>>

\* line 83: open(linux_config, 'w') truncates the file
OpenForWrite ==
  /\ pc = "open"
  /\ linux_config' = File("")
  /\ pc' = "write"
  /\ UNCHANGED <<windows_config, backup_config, result, locals, history>>

\* line 84 and the close of the with block, then lines 86-96: return True
WriteLines ==
  /\ pc = "write"
  /\ linux_config' = File(Join(new_lines))
  /\ pc' = "end"
  /\ result' = "ok"
  /\ UNCHANGED <<windows_config, backup_config, locals, history>>

\* line 84 interrupted (disk full, I/O error): some of the lines are in the
\* file, the exception leaves the function
WriteFails ==
  /\ pc = "write"
  /\ \E k \in 0..(Len(new_lines) - 1) :
       linux_config' = File(Join(SubSeq(new_lines, 1, k)))
  /\ pc' = "end"
  /\ result' = "write_error"
  /\ UNCHANGED <<windows_config, backup_config, locals, history>>

\* lines 98-99: the script is run again over what the last run left
RunAgain ==
  /\ pc = "end"
  /\ result = "ok"
  /\ pc' = "start"
  /\ result' = "none"
  /\ windows_lines' = <<>>
  /\ linux_lines' = <<>>
  /\ new_lines' = <<>>
  /\ pre_linux' = linux_config
  /\ pre_backup' = backup_config
  /\ rerun' = TRUE
  /\ UNCHANGED files

Next ==
  \/ ReturnMissing
  \/ CreateBackup
  \/ ReadWindows
  \/ ReadLinux
  \/ Merge
  \/ OpenForWrite
  \/ WriteLines
  \/ WriteFails
  \/ RunAgain

Spec == Init /\ [][Next]_vars

(***************************************************************************)
(* The runs of the example of section 8: documents made of the example's   *)
(* own lines.                                                              *)
(***************************************************************************)
ExampleSourcePool ==
  { "data=\"C:\\Games\\ModOrganizer\\Morrowind\\mods\\Graphics Overhaul\"",
    "data=\"C:/Games/ModOrganizer/Morrowind/mods/Graphics Overhaul\"",
    "content=GraphicsOverhaul.esp" }

ExampleTargetPool ==
  { "data=\"/old/path\"",
    "fallback-archive=Tribunal.bsa" }

ExampleSourceFiles ==
  {Missing}
    \cup {File(JoinWith(ls, "\r\n")) : ls \in SeqsUpTo(ExampleSourcePool, MaxSrcLines)}

ExampleTargetFiles ==
  {Missing}
    \cup {File(JoinWith(ls, "\n")) : ls \in SeqsUpTo(ExampleTargetPool, MaxTgtLines)}

InitExample == StartsFrom(ExampleSourceFiles, ExampleTargetFiles)

SpecExample == InitExample /\ [][Next]_vars

(***************************************************************************)
(* Properties.  They read the files as any reader of an openmw.cfg does:   *)
(* line by line, a line being a directive when, stripped, it starts with   *)
(* data= or content=.                                                      *)
(***************************************************************************)
\* a line without its terminator
WithoutNewline(line) ==
  IF line # "" /\ SubSeq(line, Len(line), Len(line)) = "\n"
  THEN SubSeq(line, 1, Len(line) - 1) ELSE line

\* the lines of an existing, decodable file, terminators removed
DocLines(f) ==
  LET ls == ReadLines(Bytes(f)) IN [i \in 1..Len(ls) |-> WithoutNewline(ls[i])]

\* the directives of the file with the given key, stripped, in file order
Directives(f, key) ==
  LET HasKey(line) == StartsWith(line, key)
  IN  SelectSeq(StripAll(DocLines(f)), HasKey)

\* the lines of the file that are no data= or content= directive, as they are
OpaqueLines(f) ==
  LET IsOpaque(line) ==
        ~StartsWith(Strip(line), "data=") /\ ~StartsWith(Strip(line), "content=")
  IN  SelectSeq(DocLines(f), IsOpaque)

\* how many members of seq are x
Count(seq, x) == Cardinality({i \in DOMAIN seq : seq[i] = x})

\* a is b with some members left out
RECURSIVE IsSubseq(_, _)
IsSubseq(a, b) ==
  IF a = <<>> THEN TRUE
  ELSE IF b = <<>> THEN FALSE
  ELSE IF Head(a) = Head(b) THEN IsSubseq(Tail(a), Tail(b))
  ELSE IsSubseq(a, Tail(b))

\* the run ended at return True
Completed == pc = "end" /\ result = "ok"

\* the base-root directive of the destination
BaseRoot == "data=\"/mnt/data02/SteamLibrary/steamapps/common/Morrowind/Data Files\""

\* the per-mod directories of the source documents: a directive
\* data="<prefix>ModOrganizer/Morrowind/mods/<leaf>" for each leaf
ModPrefix == "C:/Games/"
ModLeaves == {"Graphics Overhaul", "Patch"}
SourceModDirective(leaf) ==
  "data=\"" \o ModPrefix \o "ModOrganizer/Morrowind/mods/" \o leaf \o "\""
TargetModDirective(leaf) ==
  "data=\"/home/voshond/Documents/Morrowind/mods/" \o leaf \o "\""

\* C1: after a completed run every opaque line of the pre-run target is a
\* line of the rewritten target, unchanged and in the same relative order,
\* also when the last line of the target had no newline.
CarryOverComplete ==
  Completed => IsSubseq(OpaqueLines(pre_linux), DocLines(linux_config))

\* C2: after a completed run the content= directives of the target are
\* exactly those of the source, in source order; none of the pre-run
\* target's is left.
ContentReplaced ==
  Completed =>
    Directives(linux_config, "content=") = Directives(windows_config, "content=")

\* a completed run whose source held two content= directives and whose
\* target held one, another one
ContentReplacedWitness ==
  /\ Completed
  /\ ~rerun
  /\ Directives(windows_config, "content=")
       = <<"content=GraphicsOverhaul.esp", "content=Patch.esp">>
  /\ Directives(pre_linux, "content=") = <<"content=Old.esp">>
  /\ Directives(linux_config, "content=")
       = <<"content=GraphicsOverhaul.esp", "content=Patch.esp">>

\* C3: after a completed run, the first or a second one over the first
\* one's output, the target holds exactly one base-root directive.
ExactlyOneBaseRoot ==
  Completed => Count(Directives(linux_config, "data="), BaseRoot) = 1

\* C4: once the target is open for writing, and from then on to the end of
\* the run, the backup holds the bytes the run found in the target.
BackupFidelity ==
  (pc = "write" \/ result \in {"ok", "write_error"} \/ linux_config # pre_linux)
    => backup_config = pre_linux

\* a second run completed: the backup is the output of the first run, no
\* longer the backup the run found, and the target has been rewritten
BackupFidelityWitness ==
  /\ Completed
  /\ rerun
  /\ backup_config = pre_linux
  /\ backup_config # pre_backup
  /\ linux_config # pre_linux

\* C5: a run that failed while writing leaves in the target either the
\* pre-run content or the whole merged content.
CommitAtomic ==
  result = "write_error" => linux_config \in {pre_linux, File(Join(new_lines))}

\* C6: a run that finds the source or the target missing returns the
\* failure result and writes nothing: target and backup are as found.
MissingInputNoWrites ==
  (windows_config = Missing \/ pre_linux = Missing) =>
    /\ linux_config = pre_linux
    /\ backup_config = pre_backup
    /\ pc = "end" => result = "missing"

\* the target is missing, the source is there and so is an older backup:
\* the run has returned the failure result
MissingInputNoWritesWitness ==
  /\ pc = "end"
  /\ result = "missing"
  /\ pre_linux = Missing
  /\ windows_config # Missing
  /\ backup_config # Missing

\* C7: a run that fails decoding a document leaves target and backup as
\* it found them.
DecodeErrorNoSideEffects ==
  result = "decode_error" =>
    linux_config = pre_linux /\ backup_config = pre_backup

\* C8: after a completed run, each source directive
\* data=".../ModOrganizer/Morrowind/mods/<leaf>" has exactly one directive
\* data="/home/voshond/Documents/Morrowind/mods/<leaf>" in the target: there
\* are as many of the latter as of the former.
TranslationCorrect ==
  Completed =>
    LET source == Directives(windows_config, "data=")
        target == Directives(linux_config, "data=")
    IN  \A leaf \in ModLeaves :
          Count(source, SourceModDirective(leaf)) >= 1
            => Count(target, TargetModDirective(leaf))
                 = Count(source, SourceModDirective(leaf))

\* a completed run over a source with the mod "Graphics Overhaul", a name
\* with a space, once: the target holds its translation once
TranslationCorrectWitness ==
  /\ Completed
  /\ Count(Directives(windows_config, "data="),
           SourceModDirective("Graphics Overhaul")) = 1
  /\ Count(Directives(linux_config, "data="),
           TargetModDirective("Graphics Overhaul")) = 1

\* C9: the example of section 8: from the source with the backslash path and
\* the content directive and the target with data="/old/path" and the
\* fallback-archive line, the rewritten target is the fallback-archive line,
\* the base root, the translated mod path and the content directive.
ExampleScenario ==
  ( /\ Completed
    /\ ~rerun
    /\ windows_config
         = File("data=\"C:\\Games\\ModOrganizer\\Morrowind\\mods\\Graphics Overhaul\"\r\n"
                  \o "content=GraphicsOverhaul.esp\r\n")
    /\ pre_linux = File("data=\"/old/path\"\nfallback-archive=Tribunal.bsa\n") )
  => DocLines(linux_config)
       = << "fallback-archive=Tribunal.bsa",
            BaseRoot,
            TargetModDirective("Graphics Overhaul"),
            "content=GraphicsOverhaul.esp" >>

\* the data= directives C10 expects of one source data= directive
ExpectedOf(directive) ==
  IF \E leaf \in ModLeaves : directive = SourceModDirective(leaf)
  THEN <<TargetModDirective(
           CHOOSE leaf \in ModLeaves : directive = SourceModDirective(leaf))>>
  ELSE <<>>

RECURSIVE ExpectedOfAll(_)
ExpectedOfAll(directives) ==
  IF directives = <<>> THEN <<>>
  ELSE ExpectedOf(Head(directives)) \o ExpectedOfAll(Tail(directives))

\* C10: after a completed run the data= directives of the target are the
\* base root, then the translations of the source's per-mod directives in
\* source order, and nothing else.
SearchPathsExact ==
  Completed =>
    Directives(linux_config, "data=")
      = <<BaseRoot>> \o ExpectedOfAll(Directives(windows_config, "data="))

(***************************************************************************)
(* What holds of the same properties where the code departs from them.     *)
(***************************************************************************)
\* the file is empty or its last line ends with a newline
Terminated(f) ==
  f # Missing /\ (Bytes(f) = "" \/ SubSeq(Bytes(f), Len(Bytes(f)), Len(Bytes(f))) = "\n")

\* C1, C3 and C10 for a pre-run target whose last line ends with a newline
TerminatedTargetMerged ==
  (Completed /\ Terminated(pre_linux)) =>
    /\ OpaqueLines(linux_config) = OpaqueLines(pre_linux)
    /\ Count(Directives(linux_config, "data="), BaseRoot) = 1
    /\ Directives(linux_config, "data=")
         = <<BaseRoot>> \o ExpectedOfAll(Directives(windows_config, "data="))

\* C3 for the second of two runs in a row
OneBaseRootOnRerun ==
  (Completed /\ rerun) => Count(Directives(linux_config, "data="), BaseRoot) = 1

\* C9 with the source path written with forward slashes
ExampleScenarioForwardSlashes ==
  ( /\ Completed
    /\ ~rerun
    /\ windows_config
         = File("data=\"C:/Games/ModOrganizer/Morrowind/mods/Graphics Overhaul\"\r\n"
                  \o "content=GraphicsOverhaul.esp\r\n")
    /\ pre_linux = File("data=\"/old/path\"\nfallback-archive=Tribunal.bsa\n") )
  => DocLines(linux_config)
       = << "fallback-archive=Tribunal.bsa",
            BaseRoot,
            TargetModDirective("Graphics Overhaul"),
            "content=GraphicsOverhaul.esp" >>

====
